---- MODULE Spec2Model ----
(***************************************************************************)
(* Reading-log page: the Entry Store (allSampleData), the filter/sort      *)
(* engine of App (filteredData), the aggregation functions of              *)
(* readingData.js (getReadingStats, getTagFrequency) and the cumulative    *)
(* series of SimpleAnalytics.                                              *)
(*                                                                         *)
(* Strings on which the code computes (title, author, tags, search text)   *)
(* are sequences of UTF-16 code units, so that toLowerCase, includes and   *)
(* the relational operators are computed, not assumed.  ISO date strings   *)
(* 'YYYY-MM-DD' are triples <<y, m, d>>.  A JavaScript null is the empty   *)
(* sequence; an optional number n is <<n>>.  Entry objects live in Heap    *)
(* and arrays hold references to them, as JavaScript arrays do: filter()   *)
(* copies references, sort() permutes the references of its receiver, and  *)
(* no code of the page writes a field of an entry.                         *)
(***************************************************************************)
EXTENDS Integers, Sequences, FiniteSets, TLC

VARIABLES
    allSampleData,   \* the Entry Store (readingData.js:29)
    engine,          \* which Array.prototype.sort the host provides
    searchTerm, selectedStatus, selectedType, selectedTag,
    sortBy, sortOrder, activeTab,      \* App state (App.jsx:14-20)
    filteredData,    \* the memoized view (App.jsx:23)
    stats,           \* getReadingStats(allSampleData) (App.jsx:55)
    tagFrequency,    \* getTagFrequency(allSampleData) (App.jsx:56)
    cumulativeData,  \* SimpleAnalytics' cumulative series, <<>> while unmounted
    called,          \* which derived values have been evaluated
    dataType,        \* what kind of value the entry sequence is; allSampleData
                     \* holds its elements when it is an array
    failed,          \* the evaluations that threw a TypeError
    analytics,       \* what SimpleAnalytics renders: "unmounted", "noData", "charts"
    charts,          \* SimpleAnalytics' other series, <<>> while it shows none
    words,           \* the words prop of the mounted WordCloud
    canvasRef,       \* canvasRef.current: 0 while unmounted, else the canvas
    scripts,         \* the script elements with src '/wordcloud2.js' in the
                     \* document, each with what its onload closed over
    windowWordCloud, \* whether window.WordCloud is defined
    drawn            \* what is drawn on each canvas created so far

wordCloudVars == <<words, canvasRef, scripts, windowWordCloud, drawn>>

vars == <<allSampleData, engine, searchTerm, selectedStatus, selectedType,
          selectedTag, sortBy, sortOrder, activeTab, filteredData, stats,
          tagFrequency, cumulativeData, called, dataType, failed, analytics,
          charts, wordCloudVars>>

----------------------------------------------------------------------------
(* Bounds of the model *)

\* longest Entry Store drawn freely from the page's entries
MaxEntries == 2
\* longest input array of the aggregation functions drawn freely
MaxData == 4

\* the longest store whose charts are computed
MaxCharts == 3

\* how often the WordCloud component is mounted
MaxMounts == 3

----------------------------------------------------------------------------
(* JavaScript values *)

null == <<>>

\* a words prop that was not passed
undefined == [defined |-> FALSE, list |-> <<>>]

\* a words prop holding an array
Words(list) == [defined |-> TRUE, list |-> list]

\* no WordCloud was mounted yet: the document holds no canvas and no script
WordCloudUnmounted ==
    /\ words = undefined
    /\ canvasRef = 0
    /\ scripts = <<>>
    /\ windowWordCloud = FALSE
    /\ drawn = <<>>

\* a conversion that ranks null above every rating
ToNumberNullLargest(v) == IF v = null THEN 6 ELSE v[1]

\* ToNumber of an optional number: null converts to 0
ToNumber(v) == IF v = null THEN 0 ELSE v[1]

\* v || d
OrElse(v, d) == IF v = null THEN d ELSE v

\* String.prototype.toLowerCase on the ASCII range
toLowerCase(s) ==
    [i \in 1..Len(s) |-> IF s[i] >= 65 /\ s[i] <= 90 THEN s[i] + 32 ELSE s[i]]

\* String.prototype.includes
includes(s, t) ==
    \E k \in 0..(Len(s) - Len(t)) : SubSeq(s, k + 1, k + Len(t)) = t

\* s < t on strings: lexicographic on code units
RECURSIVE StrLess(_, _)
StrLess(s, t) ==
    IF t = <<>> THEN FALSE
    ELSE IF s = <<>> THEN TRUE
    ELSE IF Head(s) # Head(t) THEN Head(s) < Head(t)
    ELSE StrLess(Tail(s), Tail(t))

\* new Date('YYYY-MM-DD').getTime(), in days since 1970-01-01 (the factor
\* 86400000 ms per day is left out: it does not fit 32-bit integers
\* and does not change any comparison)
DaysFromCivil(y, mp, d) ==
    (y \div 400) * 146097 + (y % 400) * 365 + (y % 400) \div 4
        - (y % 400) \div 100 + (153 * mp + 2) \div 5 + d - 1 - 719468

DateValue(date) ==
    DaysFromCivil(IF date[2] <= 2 THEN date[1] - 1 ELSE date[1],
                  (date[2] + 9) % 12, date[3])

\* The month and the day of the date that lies `days` days after 1970-01-01
MonthDayOfDoy(doy, mp) ==
    <<IF mp < 10 THEN mp + 3 ELSE mp - 9, doy - (153 * mp + 2) \div 5 + 1>>

MonthDayOfYoe(doe, yoe) ==
    MonthDayOfDoy(doe - (365 * yoe + yoe \div 4 - yoe \div 100),
                  (5 * (doe - (365 * yoe + yoe \div 4 - yoe \div 100)) + 2) \div 153)

MonthDayOfDoe(doe) ==
    MonthDayOfYoe(doe, (doe - doe \div 1460 + doe \div 36524 - doe \div 146096) \div 365)

MonthDay(days) == MonthDayOfDoe((days + 719468) % 146097)

\* where the host's clock stands against UTC
HostTimeZones == {"utc or east of it", "west of utc"}

\* new Date('YYYY-MM-DD').toLocaleDateString('en-US', {month: 'short',
\* day: 'numeric'}): the date string is read as midnight UTC and shown in
\* the host's time zone, which west of UTC is the evening of the day before;
\* the label is <<month, day>>, without the year
toLocaleDateString(date, zone) ==
    MonthDay(DateValue(date) - (IF zone = "west of utc" THEN 1 ELSE 0))

\* a fallback date later than every date of the log
FarFutureDate == <<2100, 1, 1>>

\* the literal '1900-01-01' of the sort comparator
SentinelDate == <<1900, 1, 1>>

\* the 'all' option of the status, type and tag dropdowns
All == <<97, 108, 108>>

Reverse(s) == [i \in 1..Len(s) |-> s[Len(s) + 1 - i]]

----------------------------------------------------------------------------
(* Entry objects *)

Entry(id, dateAdded, dateRead, title, author, type, tags, status, rating, impact) ==
    [id |-> id, dateAdded |-> dateAdded, dateRead |-> dateRead, title |-> title,
     author |-> author, type |-> type, tags |-> tags, status |-> status,
     rating |-> rating, impact |-> impact]

AtomicHabits   == <<65, 116, 111, 109, 105, 99, 32, 72, 97, 98, 105, 116, 115>>
TheLeanStartup == <<84, 104, 101, 32, 76, 101, 97, 110, 32, 83, 116, 97, 114, 116, 117, 112>>
WhyWeSleep     == <<87, 104, 121, 32, 87, 101, 32, 83, 108, 101, 101, 112>>
TagAI          == <<65, 73>>                                  \* 'AI'
TagLowerAi     == <<97, 105>>                                 \* 'ai'
TagAIEthics    == <<65, 73, 32, 69, 116, 104, 105, 99, 115>>  \* 'AI Ethics'
TagA           == <<65>>                                      \* 'A'
TagB           == <<66>>                                      \* 'B'
Ann            == <<65, 110, 110>>
Eric           == <<69, 114, 105, 99>>
Sly            == <<83, 108, 121>>
SearchSL       == <<83, 76>>                                  \* 'SL'
TagPaddedA     == <<32, 65, 32>>                              \* ' A '
TagBlank       == <<32, 32>>                                  \* '  '
TagU           == <<117>>                                     \* 'u'
ManyTags       == [i \in 1..21 |-> <<96 + i>>]                \* 'a', 'b', ... 'u'

\* the fixture with the second entry pasted from the first, id included
FixtureIdsWithDuplicate == <<1, 1, 3, 4, 5, 6, 7, 8, 9, 10>>

\* the ids of the ten entries of the fixture, in store order: the strings
\* '1' to '10' (readingData.js:31-253), kept as the numbers they spell
FixtureIds == <<1, 2, 3, 4, 5, 6, 7, 8, 9, 10>>

\* an entry of which only the aggregation functions' fields vary
StatsEntry(id, status, rating, impact, tags) ==
    Entry(id, <<2025, 1, 15>>, IF status = "read" THEN <<2025, 1, 20>> ELSE null,
          <<84, id>>, Ann, "book", tags, status, rating, impact)

\* Entries 1-4, the page's: with the ids and the shapes of the fixture (read entries carry
\* dateRead, rating and impact, the others null); two share a title, two
\* share a dateAdded, two have no dateRead and no rating, one has no tags.
\* Entries 5-10, the aggregation functions': read entries with ratings 5, 4,
\* 4 and none, a rated entry that is not read, a repeated tag, no tags.
\* Entries 11-20: ten entries, six of them read with ratings 4,5,4,5,5,5.
\* Entry 21: an entry whose status is none of the three of the schema.
\* Entries 22-24, the charts': an unread entry rated 1 with a padded and a
\* blank tag, a read entry with 21 tags, an entry that repeats the last of
\* those.
Heap ==
    << Entry(FixtureIds[1], <<2025, 1, 10>>, <<2025, 1, 25>>, AtomicHabits, Ann, "book",
             <<TagAI>>, "read", <<5>>, <<5>>),
       Entry(FixtureIds[2], <<2025, 2, 10>>, <<2025, 2, 15>>, TheLeanStartup, Eric, "article",
             <<TagLowerAi>>, "read", <<4>>, <<3>>),
       Entry(FixtureIds[3], <<2025, 2, 10>>, null, WhyWeSleep, Ann, "book",
             <<TagAIEthics>>, "in-progress", null, null),
       Entry(FixtureIds[4], <<2025, 2, 20>>, null, AtomicHabits, Sly, "article",
             <<>>, "to-read", null, null),
       StatsEntry(5, "read", <<5>>, <<4>>, <<TagA, TagB>>),
       StatsEntry(6, "read", <<4>>, <<5>>, <<TagA>>),
       StatsEntry(7, "read", <<4>>, <<2>>, <<TagA, TagA>>),
       StatsEntry(8, "read", null, null, <<TagB>>),
       StatsEntry(9, "in-progress", <<3>>, <<3>>, <<TagB>>),
       StatsEntry(10, "to-read", null, null, <<>>),
       StatsEntry(11, "read", <<4>>, <<4>>, <<TagA, TagB>>),
       StatsEntry(12, "read", <<5>>, <<5>>, <<TagA>>),
       StatsEntry(13, "to-read", null, null, <<TagAI>>),
       StatsEntry(14, "read", <<4>>, <<4>>, <<TagB>>),
       StatsEntry(15, "read", <<5>>, <<5>>, <<TagAI>>),
       StatsEntry(16, "in-progress", null, null, <<TagAI>>),
       StatsEntry(17, "read", <<5>>, <<4>>, <<TagA>>),
       StatsEntry(18, "read", <<5>>, <<5>>, <<TagB>>),
       StatsEntry(19, "to-read", null, null, <<>>),
       StatsEntry(20, "in-progress", null, null, <<TagA>>),
       StatsEntry(21, "abandoned", <<2>>, <<1>>, <<TagB>>),
       StatsEntry(22, "to-read", <<1>>, null, <<TagPaddedA, TagBlank>>),
       StatsEntry(23, "read", <<3>>, <<3>>, ManyTags),
       StatsEntry(24, "in-progress", <<2>>, null, <<TagU, TagU>>) >>

\* the entry object a reference points to
Obj(ref) == Heap[ref]

\* the arrays of n distinct references drawn from refs
Arrays(refs, n) ==
    {f \in [1..n -> refs] : \A i, j \in 1..n : f[i] = f[j] => i = j}

\* the entries a store of the page is drawn from
EntryPool == 1..4

\* the stores holding the three entries titled 'Atomic Habits', 'The Lean
\* Startup' and 'Why We Sleep', in every order
TitleStores == Arrays({1, 2, 3}, 3)

\* every store of at most MaxEntries distinct entries in every order, and
\* the stores of the three titles
Stores == UNION {Arrays(EntryPool, n) : n \in 0..MaxEntries} \cup TitleStores

\* the entries an input of the aggregation functions is drawn from
StatsPool == 5..10 \cup {21}

\* ten entries, six of them read with ratings 4,5,4,5,5,5
ExampleStore == [i \in 1..10 |-> 10 + i]

\* the entries a store shown on the analytics tab is drawn from
ChartPool == {5, 8, 22, 23, 24}

\* every store of at most MaxCharts entries of them, in every order
ChartStores == UNION {Arrays(ChartPool, n) : n \in 0..MaxCharts}

\* the inputs of the aggregation functions
StatsStores == UNION {Arrays(StatsPool, n) : n \in 0..MaxData} \cup {ExampleStore}


----------------------------------------------------------------------------
(* Array.prototype.sort, as the host engines run it on short arrays *)

\* aValue / bValue of the comparator: the field the view is sorted by, a
\* date field as new Date(item[sortBy] || '1900-01-01') (App.jsx:37-43)
SortValue(item, by) ==
    IF by = "dateAdded" \/ by = "dateRead"
    THEN DateValue(OrElse(item[by], SentinelDate))
    ELSE item[by]

\* aValue > bValue: strings by code units, dates by time value, ratings
\* as numbers
GreaterThan(aValue, bValue, by) ==
    IF by = "title" THEN StrLess(bValue, aValue)
    ELSE IF by = "dateAdded" \/ by = "dateRead" THEN aValue > bValue
    ELSE ToNumber(aValue) > ToNumber(bValue)

\* aValue < bValue
LessThan(aValue, bValue, by) ==
    IF by = "title" THEN StrLess(aValue, bValue)
    ELSE IF by = "dateAdded" \/ by = "dateRead" THEN aValue < bValue
    ELSE ToNumber(aValue) < ToNumber(bValue)

\* the view comparator without its descending branch
compareAscendingOnly(a, b, by, order) ==
    IF GreaterThan(SortValue(a, by), SortValue(b, by), by) THEN 1 ELSE -1

\* the view comparator with the two directions exchanged
compareDirectionsSwapped(a, b, by, order) ==
    IF order = "asc"
    THEN (IF LessThan(SortValue(a, by), SortValue(b, by), by) THEN 1 ELSE -1)
    ELSE (IF GreaterThan(SortValue(a, by), SortValue(b, by), by) THEN 1 ELSE -1)

\* the view comparator (App.jsx:36-50)
compare(a, b, by, order) ==
    IF order = "asc"
    THEN (IF GreaterThan(SortValue(a, by), SortValue(b, by), by) THEN 1 ELSE -1)
    ELSE (IF LessThan(SortValue(a, by), SortValue(b, by), by) THEN 1 ELSE -1)

\* the comparator of the cumulative series (readingData.js:873)
byDateRead(a, b) == DateValue(a.dateRead) - DateValue(b.dateRead)

\* the comparator function cmp applied to two entries
Apply(cmp, a, b) ==
    IF cmp.fn = "compare" THEN compare(a, b, cmp.by, cmp.order)
    ELSE byDateRead(a, b)

\* a call of the comparator function cmp on two elements of the array
Call(cmp, refA, refB) == Apply(cmp, Obj(refA), Obj(refB))

\* the array with its element at index from moved to index to <= from
MoveTo(arr, from, to) ==
    SubSeq(arr, 1, to - 1) \o <<arr[from]>>
        \o SubSeq(arr, to, from - 1)
        \o SubSeq(arr, from + 1, Len(arr))

\* V8: binary insertion sort after the initial run (arrays shorter than 64)
RECURSIVE BinarySearch(_, _, _, _, _)
BinarySearch(arr, cmp, pivot, left, right) ==
    IF left < right
    THEN IF Call(cmp, pivot, arr[left + ((right - left) \div 2)]) < 0
         THEN BinarySearch(arr, cmp, pivot, left, left + ((right - left) \div 2))
         ELSE BinarySearch(arr, cmp, pivot, left + ((right - left) \div 2) + 1, right)
    ELSE left

RECURSIVE BinaryInsertionSort(_, _, _)
BinaryInsertionSort(arr, cmp, start) ==
    IF start > Len(arr) THEN arr
    ELSE BinaryInsertionSort(
             MoveTo(arr, start, BinarySearch(arr, cmp, arr[start], 1, start)),
             cmp, start + 1)

\* the length of the run the array starts with
RECURSIVE CountRun(_, _, _, _)
CountRun(arr, cmp, isDescending, idx) ==
    IF idx > Len(arr) THEN idx - 1
    ELSE IF isDescending = (Call(cmp, arr[idx], arr[idx - 1]) >= 0)
    THEN idx - 1
    ELSE CountRun(arr, cmp, isDescending, idx + 1)

\* a descending run is reversed in place; the rest is inserted into it
SortAfterRun(arr, cmp, isDescending, run) ==
    BinaryInsertionSort(
        IF isDescending
        THEN Reverse(SubSeq(arr, 1, run)) \o SubSeq(arr, run + 1, Len(arr))
        ELSE arr,
        cmp, run + 1)

CountAndMakeRun(arr, cmp, isDescending) ==
    SortAfterRun(arr, cmp, isDescending, CountRun(arr, cmp, isDescending, 3))

TimSort(arr, cmp) ==
    IF Len(arr) < 2 THEN arr
    ELSE CountAndMakeRun(arr, cmp, Call(cmp, arr[2], arr[1]) < 0)

\* SpiderMonkey: linear insertion sort (arrays shorter than 24)
RECURSIVE InsertPos(_, _, _, _)
InsertPos(arr, cmp, item, j) ==
    IF j < 1 THEN 0
    ELSE IF Call(cmp, arr[j], item) <= 0 THEN j
    ELSE InsertPos(arr, cmp, item, j - 1)

RECURSIVE InsertionSort(_, _, _)
InsertionSort(arr, cmp, i) ==
    IF i > Len(arr) THEN arr
    ELSE InsertionSort(
             MoveTo(arr, i, InsertPos(arr, cmp, arr[i], i - 1) + 1),
             cmp, i + 1)

Engines == {"v8", "spidermonkey"}

ArraySort(eng, arr, cmp) ==
    IF eng = "v8" THEN TimSort(arr, cmp) ELSE InsertionSort(arr, cmp, 2)

----------------------------------------------------------------------------
(* Aggregation functions (readingData.js:282-305) *)

\* tagCount[tag] = (tagCount[tag] || 0) + 1, on an object kept as the
\* sequence of its own properties in insertion order
Increment(tagCount, tag) ==
    IF \E i \in 1..Len(tagCount) : tagCount[i].tag = tag
    THEN [i \in 1..Len(tagCount) |->
            IF tagCount[i].tag = tag
            THEN [tag |-> tag, count |-> tagCount[i].count + 1]
            ELSE tagCount[i]]
    ELSE Append(tagCount, [tag |-> tag, count |-> 1])

RECURSIVE forEachTag(_, _)
forEachTag(tags, tagCount) ==
    IF tags = <<>> THEN tagCount
    ELSE forEachTag(Tail(tags), Increment(tagCount, Head(tags)))

RECURSIVE forEachItem(_, _)
forEachItem(data, tagCount) ==
    IF data = <<>> THEN tagCount
    ELSE forEachItem(Tail(data), forEachTag(Obj(Head(data)).tags, tagCount))

\* the tags of the read entries only
getTagFrequencyOfReadItems(data) ==
    forEachItem(SelectSeq(data, LAMBDA ref : Obj(ref).status = "read"), <<>>)

getTagFrequency(data) == forEachItem(data, <<>>)

\* a JavaScript number that is NaN or the fraction num / den
NaN == [nan |-> TRUE, num |-> 0, den |-> 1]

Number(num, den) == [nan |-> FALSE, num |-> num, den |-> den]

\* sum / length; the sum of an empty array is 0, and 0 / 0 is NaN
Divide(sum, length) == IF length = 0 THEN NaN ELSE Number(sum, length)

\* Math.floor in the place of Math.round
FloorToTenth(x) ==
    IF x.nan THEN NaN
    ELSE Number((10 * x.num) \div x.den, 10)

\* Math.round(x * 10) / 10 for x >= 0: halves round up, NaN stays NaN
RoundToTenth(x) ==
    IF x.nan THEN NaN
    ELSE Number((20 * x.num + x.den) \div (2 * x.den), 10)

\* readItems.reduce((sum, item) => sum + (item[field] || 0), 0)
RECURSIVE reduceSum(_, _, _)
reduceSum(items, field, sum) ==
    IF items = <<>> THEN sum
    ELSE reduceSum(Tail(items), field, sum + ToNumber(Obj(Head(items))[field]))

\* filter() keeping the entries whose status differs
WithoutStatus(data, status) == SelectSeq(data, LAMBDA ref : Obj(ref).status # status)

WithStatus(data, status) == SelectSeq(data, LAMBDA ref : Obj(ref).status = status)

\* the average over the read entries that have the field
AverageOfPresent(readItems, field) ==
    RoundToTenth(Divide(reduceSum(readItems, field, 0),
                        Len(SelectSeq(readItems, LAMBDA ref : Obj(ref)[field] # null))))

\* Math.round((sum of field over readItems / readItems.length) * 10) / 10
Average(readItems, field) ==
    RoundToTenth(Divide(reduceSum(readItems, field, 0), Len(readItems)))

\* the object getReadingStats returns, readItems being the read entries
ReadingStats(data, readItems) ==
    [totalItems    |-> Len(data),
     readItems     |-> Len(readItems),
     inProgress    |-> Len(WithStatus(data, "in-progress")),
     toRead        |-> Len(WithStatus(data, "to-read")),
     averageRating |-> Average(readItems, "rating"),
     averageImpact |-> Average(readItems, "impact")]

getReadingStats(data) == ReadingStats(data, WithStatus(data, "read"))

\* Object.keys(tagFrequency), unordered
allTags == {tagFrequency[i].tag : i \in 1..Len(tagFrequency)}

\* new Set(allSampleData.map(item => item.type))
allTypes == {Obj(allSampleData[i]).type : i \in 1..Len(allSampleData)}

----------------------------------------------------------------------------
(* Filter/sort engine (App.jsx:23-53) *)

\* matchesSearch without the toLowerCase calls
matchesSearchCaseSensitive(item, p) ==
    \/ includes(item.title, p.searchTerm)
    \/ includes(item.author, p.searchTerm)
    \/ \E i \in 1..Len(item.tags) : includes(item.tags[i], p.searchTerm)

matchesSearch(item, p) ==
    LET term == toLowerCase(p.searchTerm)
    IN  \/ includes(toLowerCase(item.title), term)
        \/ includes(toLowerCase(item.author), term)
        \/ \E i \in 1..Len(item.tags) : includes(toLowerCase(item.tags[i]), term)

matchesStatus(item, p) == p.selectedStatus = "all" \/ item.status = p.selectedStatus

matchesType(item, p) == p.selectedType = "all" \/ item.type = p.selectedType

\* matchesTag matching the way the search box does
matchesTagLikeSearch(item, p) ==
    p.selectedTag = All
        \/ \E i \in 1..Len(item.tags) :
              includes(toLowerCase(item.tags[i]), toLowerCase(p.selectedTag))

matchesTag(item, p) ==
    p.selectedTag = All \/ \E i \in 1..Len(item.tags) : item.tags[i] = p.selectedTag

\* Matches with the type and tag conditions joined by || instead of &&
MatchesTypeOrTag(item, p) ==
    matchesSearch(item, p) /\ matchesStatus(item, p)
        /\ (matchesType(item, p) \/ matchesTag(item, p))

Matches(item, p) ==
    matchesSearch(item, p) /\ matchesStatus(item, p)
        /\ matchesType(item, p) /\ matchesTag(item, p)

\* the comparator the memo callback passes to sort()
ViewComparator(p) == [fn |-> "compare", by |-> p.sortBy, order |-> p.sortOrder]

\* The useMemo callback: filter() builds a new array, sort() reorders that
\* array in place, and the callback returns it.
FilteredData(data, eng, p) ==
    ArraySort(eng, SelectSeq(data, LAMBDA ref : Matches(Obj(ref), p)), ViewComparator(p))

\* sort() called on the array the callback was given, not on a copy
SortedInPlace(data, eng, p) == ArraySort(eng, data, ViewComparator(p))

\* The array the memo callback was given, as the callback leaves it: sort()
\* is called on the array filter() returned, never on `data`.
DataAfterFilteredData(data, eng, p) == data

\* the series with its counter read before it is incremented
CumulativePointsFromZero(sortedData, zone) ==
    [i \in 1..Len(sortedData) |->
        [date       |-> toLocaleDateString(Obj(sortedData[i]).dateRead, zone),
         cumulative |-> i - 1,
         title      |-> Obj(sortedData[i]).title]]

\* sortedData.map(item => { cumulative++; ... }) (readingData.js:875-883)
CumulativePoints(sortedData, zone) ==
    [i \in 1..Len(sortedData) |->
        [date       |-> toLocaleDateString(Obj(sortedData[i]).dateRead, zone),
         cumulative |-> i,
         title      |-> Obj(sortedData[i]).title]]

\* SimpleAnalytics' cumulativeData (readingData.js:870-884): the entries
\* with a dateRead, sorted by it; each point is <<date, cumulative, title>>
CumulativeData(data, eng, zone) ==
    CumulativePoints(
        ArraySort(eng, SelectSeq(data, LAMBDA ref : Obj(ref).dateRead # null),
                  [fn |-> "byDateRead"]),
        zone)

\* The array SimpleAnalytics was given, as cumulativeData leaves it: sort()
\* is called on the array filter() returned.
DataAfterCumulativeData(data, eng) == data

----------------------------------------------------------------------------
(* The other series of SimpleAnalytics *)

\* The year and the month of the date that lies `days` days after 1970-01-01
YearMonthOfMp(y, mp) ==
    <<IF mp < 10 THEN y ELSE y + 1, IF mp < 10 THEN mp + 3 ELSE mp - 9>>

YearMonthOfYoe(era, doe, yoe) ==
    YearMonthOfMp(yoe + era * 400,
                  (5 * (doe - (365 * yoe + yoe \div 4 - yoe \div 100)) + 2) \div 153)

YearMonthOfDoe(era, doe) ==
    YearMonthOfYoe(era, doe,
                   (doe - doe \div 1460 + doe \div 36524 - doe \div 146096) \div 365)

YearMonth(days) ==
    YearMonthOfDoe((days + 719468) \div 146097, (days + 719468) % 146097)

\* new Date('YYYY-MM-DD').toLocaleDateString('en-US', {year: 'numeric',
\* month: 'short'}): the month midnight UTC of that day falls in on the
\* host's clock; the label is <<year, month>>
toLocaleYearMonth(date, zone) ==
    YearMonth(DateValue(date) - (IF zone = "west of utc" THEN 1 ELSE 0))

\* data.filter(item => item.dateRead).forEach(item => { monthCounts[month]
\* = (monthCounts[month] || 0) + 1 }): the keys are kept in the order of
\* their first insertion
RECURSIVE forEachDated(_, _, _)
forEachDated(dated, zone, monthCounts) ==
    IF dated = <<>> THEN monthCounts
    ELSE forEachDated(Tail(dated), zone,
                      Increment(monthCounts,
                                toLocaleYearMonth(Obj(Head(dated)).dateRead, zone)))

\* Object.entries(monthCounts).map(([month, count]) => ({ month, count }))
MonthEntries(monthCounts) ==
    [i \in 1..Len(monthCounts) |->
        [month |-> monthCounts[i].tag, count |-> monthCounts[i].count]]

\* Array.prototype.slice(-n)
SliceLast(arr, n) ==
    SubSeq(arr, IF Len(arr) > n THEN Len(arr) - n + 1 ELSE 1, Len(arr))

\* Array.prototype.slice(0, n)
SliceFirst(arr, n) == SubSeq(arr, 1, IF Len(arr) > n THEN n ELSE Len(arr))

\* SimpleAnalytics' monthlyData (readingData.js:860-867)
MonthlyData(data, zone) ==
    SliceLast(
        MonthEntries(
            forEachDated(SelectSeq(data, LAMBDA ref : Obj(ref).dateRead # null),
                         zone, <<>>)),
        12)

\* `${rating} Star${rating > 1 ? 's' : ''}`
StarLabel(rating) ==
    <<48 + rating, 32, 83, 116, 97, 114>> \o (IF rating > 1 THEN <<115>> ELSE <<>>)

\* the count over the read entries only
CountRatedRead(data, rating) ==
    Len(SelectSeq(data, LAMBDA ref : Obj(ref).status = "read"
                                     /\ Obj(ref).rating = <<rating>>))

\* data.filter(item => item.rating === rating).length
CountRated(data, rating) ==
    Len(SelectSeq(data, LAMBDA ref : Obj(ref).rating = <<rating>>))

\* SimpleAnalytics' ratingData (readingData.js:931-938), without the colour
RatingData(data) ==
    [index \in 1..5 |->
        [rating |-> StarLabel(index), count |-> CountRated(data, index)]]

\* the white space String.prototype.trim strips, on the ASCII range
IsWhiteSpace(c) == c \in {9, 10, 11, 12, 13, 32}

\* String.prototype.trim
RECURSIVE trimStart(_)
trimStart(str) ==
    IF str # <<>> /\ IsWhiteSpace(Head(str)) THEN trimStart(Tail(str)) ELSE str

trim(str) == Reverse(trimStart(Reverse(trimStart(str))))

\* item.tags.forEach(tag => { const cleanTag = tag.trim(); if (cleanTag)
\* tagCounts[cleanTag] = (tagCounts[cleanTag] || 0) + 1 })
RECURSIVE forEachCleanTag(_, _)
forEachCleanTag(tags, tagCounts) ==
    IF tags = <<>> THEN tagCounts
    ELSE forEachCleanTag(Tail(tags),
                         IF trim(Head(tags)) # <<>>
                         THEN Increment(tagCounts, trim(Head(tags)))
                         ELSE tagCounts)

RECURSIVE forEachItemClean(_, _)
forEachItemClean(data, tagCounts) ==
    IF data = <<>> THEN tagCounts
    ELSE forEachItemClean(Tail(data),
                          forEachCleanTag(Obj(Head(data)).tags, tagCounts))

\* where sort(([, a], [, b]) => b - a) puts an entry among the sorted ones
\* before it: after every entry whose count is not smaller (the comparator
\* is consistent, so the sort is the stable one on every engine)
RECURSIVE InsertByCount(_, _)
InsertByCount(sorted, entry) ==
    IF sorted = <<>> THEN <<entry>>
    ELSE IF sorted[Len(sorted)].count >= entry.count THEN Append(sorted, entry)
    ELSE Append(InsertByCount(SubSeq(sorted, 1, Len(sorted) - 1), entry),
                sorted[Len(sorted)])

RECURSIVE SortByCount(_, _)
SortByCount(entries, sorted) ==
    IF entries = <<>> THEN sorted
    ELSE SortByCount(Tail(entries), InsertByCount(sorted, Head(entries)))

\* .map(([word, count]) => ({ word, count }))
WordEntries(tagCounts) ==
    [i \in 1..Len(tagCounts) |->
        [word |-> tagCounts[i].tag, count |-> tagCounts[i].count]]

\* the first 20 tags in the order of their insertion, sorted afterwards
WordCloudDataSlicedFirst(data) ==
    WordEntries(SortByCount(SliceFirst(forEachItemClean(data, <<>>), 20), <<>>))

\* SimpleAnalytics' wordCloudData (readingData.js:941-959)
WordCloudData(data) ==
    WordEntries(SliceFirst(SortByCount(forEachItemClean(data, <<>>), <<>>), 20))

\* the decimal digits of a natural number
RECURSIVE Digits(_)
Digits(n) == IF n < 10 THEN <<48 + n>> ELSE Append(Digits(n \div 10), 48 + (n % 10))

\* the decimal notation of n tenths
TenthsText(n) == Digits(n \div 10) \o <<46, 48 + (n % 10)>>

\* Number.prototype.toFixed(1) of num / den >= 0: the tenths nearest to it,
\* the larger of two equally near
toFixed1(num, den) == TenthsText((20 * num + den) \div (2 * den))

\* readItems.length > 0 ? (totalRating / readItems.length).toFixed(1) : 0,
\* a string or the number 0: its type and the text it renders as
AvgRating(readItems) ==
    IF Len(readItems) > 0
    THEN [typeof |-> "string",
          text   |-> toFixed1(reduceSum(readItems, "rating", 0), Len(readItems))]
    ELSE [typeof |-> "number", text |-> <<48>>]

\* SimpleAnalytics' stats (readingData.js:963-975), readItems being the
\* read entries
AnalyticsStats(data, readItems) ==
    [total      |-> Len(data),
     read       |-> Len(readItems),
     inProgress |-> Len(WithStatus(data, "in-progress")),
     toRead     |-> Len(WithStatus(data, "to-read")),
     avgRating  |-> AvgRating(readItems)]

\* the series SimpleAnalytics computes beside cumulativeData
Charts(data, zone) ==
    [monthlyData   |-> MonthlyData(data, zone),
     ratingData    |-> RatingData(data),
     wordCloudData |-> WordCloudData(data),
     stats         |-> AnalyticsStats(data, WithStatus(data, "read"))]

----------------------------------------------------------------------------
(* Inputs of the page *)

\* what the user can type into the search box
SearchTerms == {<<>>, TagAI, SearchSL}

StatusOptions == {"all", "read", "in-progress", "to-read"}

SortOptions == {"dateAdded", "dateRead", "title", "rating"}

TabOptions == {"timeline", "cards", "analytics"}

\* the kinds of value the entry sequence can be
DataTypes == {"undefined", "null", "number", "string", "object", "array"}

\* data.filter, data.forEach and data.map are functions only on an array:
\* a property read on undefined or null throws, and on any other value the
\* property is undefined and calling it throws
HasArrayMethods(type) == type = "array"

\* The guard of SimpleAnalytics (readingData.js:851-857):
\* !data || !Array.isArray(data) || data.length === 0
SimpleAnalyticsRenders(type, data) ==
    IF type # "array" \/ Len(data) = 0 THEN "noData" ELSE "charts"

----------------------------------------------------------------------------
(* The page (App.jsx) *)

\* the six inputs of the view, as a record
Params(search, status, type, tag, by, order) ==
    [searchTerm |-> search, selectedStatus |-> status, selectedType |-> type,
     selectedTag |-> tag, sortBy |-> by, sortOrder |-> order]

CurrentParams ==
    Params(searchTerm, selectedStatus, selectedType, selectedTag, sortBy, sortOrder)

\* initial values with the ascending direction
InitialParamsAscending == Params(<<>>, "all", "all", All, "dateAdded", "asc")

\* useState initial values (App.jsx:14-20)
InitialParams == Params(<<>>, "all", "all", All, "dateAdded", "desc")

\* a dependency array that leaves out sortOrder
MemoDepsWithoutSortOrder ==
    {"searchTerm", "selectedStatus", "selectedType", "selectedTag", "sortBy"}

\* the dependency array of the filteredData memo (App.jsx:53)
MemoDeps ==
    {"searchTerm", "selectedStatus", "selectedType", "selectedTag", "sortBy",
     "sortOrder"}

\* a render whose header statistics are computed from the view
RenderStatsOfView(p, tab, depsChanged) ==
    /\ filteredData' = IF depsChanged
                       THEN FilteredData(allSampleData, engine, p)
                       ELSE filteredData
    /\ stats' = getReadingStats(filteredData')
    /\ tagFrequency' = getTagFrequency(allSampleData)
    /\ IF tab = "analytics"
       THEN \E zone \in HostTimeZones :
                /\ cumulativeData' = CumulativeData(allSampleData, engine, zone)
                /\ charts' = IF allSampleData = <<>> THEN null
                              ELSE Charts(allSampleData, zone)
       ELSE cumulativeData' = <<>> /\ charts' = null
    /\ analytics' = IF tab = "analytics"
                    THEN SimpleAnalyticsRenders("array", allSampleData)
                    ELSE "unmounted"
    /\ UNCHANGED <<allSampleData, engine, called, dataType, failed, wordCloudVars>>

\* One render of App with inputs p on tab `tab`: the memo callback runs when
\* one of its dependencies changed, the header values are computed from the
\* store, and SimpleAnalytics computes its series, labelled in the host's
\* time zone, while its tab is mounted.
Render(p, tab, depsChanged) ==
    LET afterMemo == IF depsChanged
                     THEN DataAfterFilteredData(allSampleData, engine, p)
                     ELSE allSampleData
    IN  /\ filteredData' = IF depsChanged
                           THEN FilteredData(allSampleData, engine, p)
                           ELSE filteredData
        /\ stats' = getReadingStats(afterMemo)
        /\ tagFrequency' = getTagFrequency(afterMemo)
        /\ IF tab = "analytics"
           THEN \E zone \in HostTimeZones :
                    /\ cumulativeData' = CumulativeData(afterMemo, engine, zone)
                    /\ charts' = IF afterMemo = <<>> THEN null
                                  ELSE Charts(afterMemo, zone)
           ELSE cumulativeData' = <<>> /\ charts' = null
        /\ allSampleData' = IF tab = "analytics"
                            THEN DataAfterCumulativeData(afterMemo, engine)
                            ELSE afterMemo
        /\ analytics' = IF tab = "analytics"
                        THEN SimpleAnalyticsRenders("array", afterMemo)
                        ELSE "unmounted"
        /\ UNCHANGED <<engine, called, dataType, failed, wordCloudVars>>

Init ==
    /\ allSampleData \in Stores
    /\ engine \in Engines
    /\ searchTerm = InitialParams.searchTerm
    /\ selectedStatus = InitialParams.selectedStatus
    /\ selectedType = InitialParams.selectedType
    /\ selectedTag = InitialParams.selectedTag
    /\ sortBy = InitialParams.sortBy
    /\ sortOrder = InitialParams.sortOrder
    /\ activeTab = "timeline"
    /\ filteredData = FilteredData(allSampleData, engine, InitialParams)
    /\ stats = getReadingStats(allSampleData)
    /\ tagFrequency = getTagFrequency(allSampleData)
    /\ cumulativeData = <<>>
    /\ called = {"getReadingStats", "getTagFrequency"}
    /\ dataType = "array"
    /\ failed = {}
    /\ analytics = "unmounted"
    /\ charts = null
    /\ WordCloudUnmounted

\* the filter panel rendered on every tab
FiltersShownOnEveryTab == TRUE

\* The filter panel is rendered only off the analytics tab (App.jsx:187)
FiltersShown == activeTab # "analytics"

\* the values of the three TabsContent panels (App.jsx:263, 356, 402)
TabsContentValues == {"timeline", "cards", "analytics"}

\* Tabs shows the TabsContent whose value is the Tabs' value (App.jsx:169)
PanelShown(value) == activeTab = value

\* onChange of the search box (App.jsx:195)
SetSearchTerm ==
    /\ FiltersShown
    /\ \E value \in SearchTerms :
        /\ value # searchTerm
        /\ searchTerm' = value
        /\ UNCHANGED <<selectedStatus, selectedType, selectedTag, sortBy, sortOrder, activeTab>>
        /\ Render([CurrentParams EXCEPT !.searchTerm = value], activeTab,
                  "searchTerm" \in MemoDeps)

\* Status dropdown (App.jsx:200-210)
SetSelectedStatus ==
    /\ FiltersShown
    /\ \E value \in StatusOptions :
        /\ value # selectedStatus
        /\ selectedStatus' = value
        /\ UNCHANGED <<searchTerm, selectedType, selectedTag, sortBy, sortOrder, activeTab>>
        /\ Render([CurrentParams EXCEPT !.selectedStatus = value], activeTab,
                  "selectedStatus" \in MemoDeps)

\* Type dropdown: 'all' and the types of the store (App.jsx:212-224)
SetSelectedType ==
    /\ FiltersShown
    /\ \E value \in {"all"} \cup allTypes :
        /\ value # selectedType
        /\ selectedType' = value
        /\ UNCHANGED <<searchTerm, selectedStatus, selectedTag, sortBy, sortOrder, activeTab>>
        /\ Render([CurrentParams EXCEPT !.selectedType = value], activeTab,
                  "selectedType" \in MemoDeps)

\* Tag dropdown: 'all' and the keys of tagFrequency (App.jsx:226-238)
SetSelectedTag ==
    /\ FiltersShown
    /\ \E value \in {All} \cup allTags :
        /\ value # selectedTag
        /\ selectedTag' = value
        /\ UNCHANGED <<searchTerm, selectedStatus, selectedType, sortBy, sortOrder, activeTab>>
        /\ Render([CurrentParams EXCEPT !.selectedTag = value], activeTab,
                  "selectedTag" \in MemoDeps)

\* Sort-field dropdown (App.jsx:240-250)
SetSortBy ==
    /\ FiltersShown
    /\ \E value \in SortOptions :
        /\ value # sortBy
        /\ sortBy' = value
        /\ UNCHANGED <<searchTerm, selectedStatus, selectedType, selectedTag, sortOrder, activeTab>>
        /\ Render([CurrentParams EXCEPT !.sortBy = value], activeTab,
                  "sortBy" \in MemoDeps)

\* Direction button (App.jsx:252-258)
ToggleSortOrder ==
    /\ FiltersShown
    /\ sortOrder' = IF sortOrder = "asc" THEN "desc" ELSE "asc"
    /\ UNCHANGED <<searchTerm, selectedStatus, selectedType, selectedTag, sortBy, activeTab>>
    /\ Render([CurrentParams EXCEPT !.sortOrder = sortOrder'], activeTab,
              "sortOrder" \in MemoDeps)

\* a tab switch that also clears the search box
SetActiveTabClearingSearch ==
    \E value \in TabOptions :
        /\ value # activeTab
        /\ activeTab' = value
        /\ searchTerm' = <<>>
        /\ UNCHANGED <<selectedStatus, selectedType, selectedTag, sortBy, sortOrder>>
        /\ Render([CurrentParams EXCEPT !.searchTerm = <<>>], value, TRUE)

\* Tabs onValueChange (App.jsx:170)
SetActiveTab ==
    \E value \in TabOptions :
        /\ value # activeTab
        /\ activeTab' = value
        /\ UNCHANGED <<searchTerm, selectedStatus, selectedType, selectedTag, sortBy, sortOrder>>
        /\ Render(CurrentParams, value, "activeTab" \in MemoDeps)

Next ==
    \/ SetSearchTerm
    \/ SetSelectedStatus
    \/ SetSelectedType
    \/ SetSelectedTag
    \/ SetSortBy
    \/ ToggleSortOrder
    \/ SetActiveTab

Spec == Init /\ [][Next]_vars

----------------------------------------------------------------------------
(* The WordCloud component *)

appVars == <<allSampleData, engine, searchTerm, selectedStatus, selectedType,
             selectedTag, sortBy, sortOrder, activeTab, filteredData, stats,
             tagFrequency, cumulativeData, called, dataType, failed, analytics,
             charts>>

\* the values of the words prop: none, and the wordCloudData of the empty
\* store and of two stores of one entry
WordLists ==
    {undefined} \cup {Words(WordCloudData(data)) : data \in {<<>>, <<5>>, <<8>>}}

\* words.map(({ word, count }) => [word, count * 10])
wordList(list) == [i \in DOMAIN list |-> <<list[i].word, list[i].count * 10>>]

\* the effect without the querySelector guard: it appends its script always
EffectAlwaysAppending(canvas, w, canvases) ==
    IF ~w.defined \/ Len(w.list) = 0 \/ canvas = 0
    THEN scripts' = scripts /\ drawn' = canvases
    ELSE /\ scripts' = Append(scripts, [canvas |-> canvas, words |-> w, loaded |-> FALSE])
         /\ drawn' = canvases

\* One run of the effect (part_000:6-58) with the canvas and the words of
\* the render it belongs to, canvases being what the canvases show before
\* it: it returns on missing or empty words and on a null ref; its script,
\* whose onload closes over canvas and words, is appended when the document
\* has no script with that src; when it has one and window.WordCloud is
\* defined, onload is called at once; when it has one that is still
\* loading, nothing happens.
Effect(canvas, w, canvases) ==
    IF ~w.defined \/ Len(w.list) = 0 \/ canvas = 0
    THEN scripts' = scripts /\ drawn' = canvases
    ELSE IF Len(scripts) = 0
    THEN /\ scripts' = <<[canvas |-> canvas, words |-> w, loaded |-> FALSE]>>
         /\ drawn' = canvases
    ELSE IF windowWordCloud
    THEN /\ scripts' = scripts
         /\ drawn' = [canvases EXCEPT ![canvas] = wordList(w.list)]
    ELSE scripts' = scripts /\ drawn' = canvases

\* SimpleAnalytics is mounted (the analytics tab is entered) and renders
\* <WordCloud words={...} />: a new canvas, then the effect
Mount ==
    /\ canvasRef = 0
    /\ Len(drawn) < MaxMounts
    /\ \E w \in WordLists :
        /\ words' = w
        /\ canvasRef' = Len(drawn) + 1
        /\ Effect(Len(drawn) + 1, w, Append(drawn, null))
    /\ UNCHANGED <<windowWordCloud, appVars>>

\* the mounted component is rendered with another word list: the effect's
\* dependency changed, it runs again with the same canvas
Rerender ==
    /\ canvasRef # 0
    /\ \E w \in WordLists :
        /\ w # words
        /\ words' = w
        /\ Effect(canvasRef, w, drawn)
    /\ UNCHANGED <<canvasRef, windowWordCloud, appVars>>

\* the analytics tab is left: the canvas leaves the document, the cleanup
\* does nothing (part_000:55-57), the script element stays
Unmount ==
    /\ canvasRef # 0
    /\ canvasRef' = 0
    /\ words' = undefined
    /\ UNCHANGED <<scripts, windowWordCloud, drawn, appVars>>

\* The load event of a script element: the library has defined
\* window.WordCloud, and the script's onload (part_000:15-45) draws the
\* words it closed over on the canvas it closed over
ScriptLoad ==
    /\ \E i \in DOMAIN scripts :
        /\ ~scripts[i].loaded
        /\ scripts' = [scripts EXCEPT ![i].loaded = TRUE]
        /\ drawn' = [drawn EXCEPT ![scripts[i].canvas] = wordList(scripts[i].words.list)]
    /\ windowWordCloud' = TRUE
    /\ UNCHANGED <<words, canvasRef, appVars>>

InitWordCloud ==
    /\ allSampleData = <<>>
    /\ engine = "v8"
    /\ searchTerm = InitialParams.searchTerm
    /\ selectedStatus = InitialParams.selectedStatus
    /\ selectedType = InitialParams.selectedType
    /\ selectedTag = InitialParams.selectedTag
    /\ sortBy = InitialParams.sortBy
    /\ sortOrder = InitialParams.sortOrder
    /\ activeTab = "timeline"
    /\ filteredData = <<>>
    /\ stats = null
    /\ tagFrequency = null
    /\ cumulativeData = <<>>
    /\ called = {}
    /\ dataType = "array"
    /\ failed = {}
    /\ analytics = "unmounted"
    /\ charts = null
    /\ WordCloudUnmounted

NextWordCloud == Mount \/ Rerender \/ Unmount \/ ScriptLoad

SpecWordCloud == InitWordCloud /\ [][NextWordCloud]_vars

\* the same with a script that, once appended, finishes loading
SpecWordCloudLoading ==
    InitWordCloud /\ [][NextWordCloud]_vars /\ WF_vars(ScriptLoad)

----------------------------------------------------------------------------
(* The page over the stores of the charts: the tag dropdown and the tabs *)

InitAnalytics ==
    /\ allSampleData \in ChartStores
    /\ engine \in Engines
    /\ searchTerm = InitialParams.searchTerm
    /\ selectedStatus = InitialParams.selectedStatus
    /\ selectedType = InitialParams.selectedType
    /\ selectedTag = InitialParams.selectedTag
    /\ sortBy = InitialParams.sortBy
    /\ sortOrder = InitialParams.sortOrder
    /\ activeTab = "timeline"
    /\ filteredData = FilteredData(allSampleData, engine, InitialParams)
    /\ stats = getReadingStats(allSampleData)
    /\ tagFrequency = getTagFrequency(allSampleData)
    /\ cumulativeData = <<>>
    /\ called = {"getReadingStats", "getTagFrequency"}
    /\ dataType = "array"
    /\ failed = {}
    /\ analytics = "unmounted"
    /\ charts = null
    /\ WordCloudUnmounted

NextAnalytics == SetSelectedTag \/ SetActiveTab

SpecAnalytics == InitAnalytics /\ [][NextAnalytics]_vars

----------------------------------------------------------------------------
(* The aggregation functions on their own: an input array is drawn and      *)
(* each function is applied to it once.                                     *)

InitStats ==
    /\ allSampleData \in StatsStores
    /\ engine = "v8"
    /\ searchTerm = InitialParams.searchTerm
    /\ selectedStatus = InitialParams.selectedStatus
    /\ selectedType = InitialParams.selectedType
    /\ selectedTag = InitialParams.selectedTag
    /\ sortBy = InitialParams.sortBy
    /\ sortOrder = InitialParams.sortOrder
    /\ activeTab = "timeline"
    /\ filteredData = <<>>
    /\ stats = null
    /\ tagFrequency = null
    /\ cumulativeData = <<>>
    /\ called = {}
    /\ dataType = "array"
    /\ failed = {}
    /\ analytics = "unmounted"
    /\ charts = null
    /\ WordCloudUnmounted

\* One evaluation, named op, of an expression that starts by calling an
\* array method (filter, forEach, map) on the entry sequence: on a value
\* that is no array the call throws a TypeError and nothing is assigned.
Evaluate(op) ==
    /\ op \notin called
    /\ called' = called \cup {op}
    /\ failed' = IF HasArrayMethods(dataType) THEN failed ELSE failed \cup {op}

CallGetReadingStats ==
    /\ Evaluate("getReadingStats")
    /\ stats' = IF HasArrayMethods(dataType) THEN getReadingStats(allSampleData) ELSE stats
    /\ UNCHANGED <<allSampleData, engine, searchTerm, selectedStatus, selectedType,
                   selectedTag, sortBy, sortOrder, activeTab, filteredData,
                   tagFrequency, cumulativeData, dataType, analytics,
                   charts, wordCloudVars>>

CallGetTagFrequency ==
    /\ Evaluate("getTagFrequency")
    /\ tagFrequency' = IF HasArrayMethods(dataType)
                       THEN getTagFrequency(allSampleData) ELSE tagFrequency
    /\ UNCHANGED <<allSampleData, engine, searchTerm, selectedStatus, selectedType,
                   selectedTag, sortBy, sortOrder, activeTab, filteredData,
                   stats, cumulativeData, dataType, analytics,
                   charts, wordCloudVars>>

NextStats == CallGetReadingStats \/ CallGetTagFrequency

SpecStats == InitStats /\ [][NextStats]_vars

----------------------------------------------------------------------------
(* The code that reads the entry sequence, given a sequence of any kind:    *)
(* the value is drawn and each reader is evaluated once.                    *)

InitMalformed ==
    /\ dataType \in DataTypes
    /\ allSampleData \in IF dataType = "array" THEN Stores ELSE {<<>>}
    /\ engine \in Engines
    /\ searchTerm = InitialParams.searchTerm
    /\ selectedStatus = InitialParams.selectedStatus
    /\ selectedType = InitialParams.selectedType
    /\ selectedTag = InitialParams.selectedTag
    /\ sortBy = InitialParams.sortBy
    /\ sortOrder = InitialParams.sortOrder
    /\ activeTab = "timeline"
    /\ filteredData = <<>>
    /\ stats = null
    /\ tagFrequency = null
    /\ cumulativeData = <<>>
    /\ called = {}
    /\ failed = {}
    /\ analytics = "unmounted"
    /\ charts = null
    /\ WordCloudUnmounted

\* the useMemo callback (App.jsx:23-53), which starts with allSampleData.filter
ComputeFilteredData ==
    /\ Evaluate("filteredData")
    /\ filteredData' = IF HasArrayMethods(dataType)
                       THEN FilteredData(allSampleData, engine, CurrentParams)
                       ELSE filteredData
    /\ UNCHANGED <<allSampleData, engine, searchTerm, selectedStatus, selectedType,
                   selectedTag, sortBy, sortOrder, activeTab, stats, tagFrequency,
                   cumulativeData, dataType, analytics,
                   charts, wordCloudVars>>

\* allTypes (App.jsx:58), which starts with allSampleData.map
ComputeAllTypes ==
    /\ Evaluate("allTypes")
    /\ UNCHANGED <<allSampleData, engine, searchTerm, selectedStatus, selectedType,
                   selectedTag, sortBy, sortOrder, activeTab, filteredData, stats,
                   tagFrequency, cumulativeData, dataType, analytics,
                   charts, wordCloudVars>>

\* <SimpleAnalytics data={...} /> (readingData.js:849-884)
MountSimpleAnalytics ==
    /\ "SimpleAnalytics" \notin called
    /\ called' = called \cup {"SimpleAnalytics"}
    /\ analytics' = SimpleAnalyticsRenders(dataType, allSampleData)
    /\ failed' = IF analytics' = "charts" /\ ~HasArrayMethods(dataType)
                 THEN failed \cup {"SimpleAnalytics"} ELSE failed
    /\ IF analytics' = "charts" /\ HasArrayMethods(dataType)
       THEN \E zone \in HostTimeZones :
                /\ cumulativeData' = CumulativeData(allSampleData, engine, zone)
                /\ charts' = Charts(allSampleData, zone)
       ELSE cumulativeData' = cumulativeData /\ charts' = charts
    /\ UNCHANGED <<allSampleData, engine, searchTerm, selectedStatus, selectedType,
                   selectedTag, sortBy, sortOrder, activeTab, filteredData, stats,
                   tagFrequency, dataType, wordCloudVars>>

NextMalformed ==
    \/ CallGetReadingStats
    \/ CallGetTagFrequency
    \/ ComputeFilteredData
    \/ ComputeAllTypes
    \/ MountSimpleAnalytics

SpecMalformed == InitMalformed /\ [][NextMalformed]_vars

----------------------------------------------------------------------------
(* Claims about the view *)

\* c and d are the same letter, whatever their case
SameLetter(c, d) ==
    \/ c = d
    \/ c >= 65 /\ c <= 90 /\ d = c + 32
    \/ d >= 65 /\ d <= 90 /\ c = d + 32

\* t occurs in s as a substring, compared case-insensitively
ContainsIgnoringCase(s, t) ==
    \E k \in 0..(Len(s) - Len(t)) : \A i \in 1..Len(t) : SameLetter(s[k + i], t[i])

\* the search predicate of the specification
SearchAdmits(e, text) ==
    \/ text = <<>>
    \/ ContainsIgnoringCase(e.title, text)
    \/ ContainsIgnoringCase(e.author, text)
    \/ \E i \in 1..Len(e.tags) : ContainsIgnoringCase(e.tags[i], text)

InView(ref) == \E j \in 1..Len(filteredData) : filteredData[j] = ref

StoreRefs == {allSampleData[i] : i \in 1..Len(allSampleData)}

CategoricalFiltersAtAll ==
    selectedStatus = "all" /\ selectedType = "all" /\ selectedTag = All

\* C1: the view holds an entry of the store iff the entry passes the search
\* predicate and the status, type and tag filters together; it holds nothing
\* else and no entry twice.
C1_ViewIsConjunctionOfFilters ==
    /\ \A ref \in StoreRefs :
          InView(ref) <=>
             /\ SearchAdmits(Obj(ref), searchTerm)
             /\ (selectedStatus = "all" \/ Obj(ref).status = selectedStatus)
             /\ (selectedType = "all" \/ Obj(ref).type = selectedType)
             /\ (selectedTag = All \/ \E i \in 1..Len(Obj(ref).tags) :
                                         Obj(ref).tags[i] = selectedTag)
    /\ \A j \in 1..Len(filteredData) : filteredData[j] \in StoreRefs
    /\ \A j, k \in 1..Len(filteredData) : filteredData[j] = filteredData[k] => j = k

\* All four filters active on a store of three entries, one of which passes.
C1_Witness ==
    /\ searchTerm = TagAI /\ selectedStatus = "read"
    /\ selectedType = "book" /\ selectedTag = TagAI
    /\ Len(allSampleData) = 3
    /\ filteredData = <<1>>

\* C2: with the categorical filters at 'all', an entry is in the view iff the
\* search text is empty or occurs, case-insensitively, in its title, its
\* author or one of its tags; the empty text admits every entry.
C2_SearchPredicate ==
    CategoricalFiltersAtAll =>
        /\ \A ref \in StoreRefs : InView(ref) <=> SearchAdmits(Obj(ref), searchTerm)
        /\ searchTerm = <<>> => Len(filteredData) = Len(allSampleData)

\* The text 'SL' on a store of two: the entry without tags is found by its
\* author 'Sly', the other entry is left out.
C2_Witness ==
    /\ CategoricalFiltersAtAll
    /\ searchTerm = SearchSL
    /\ Len(allSampleData) = 2
    /\ Len(filteredData) = 1
    /\ Obj(filteredData[1]).tags = <<>>

\* C3: with empty search and status and type at 'all', the tag filter T
\* returns exactly the entries with a tag equal to T, code unit by code unit:
\* for T = 'AI' no entry tagged only 'ai' or only 'AI Ethics' is returned.
C3_TagFilterIsExact ==
    (searchTerm = <<>> /\ selectedStatus = "all" /\ selectedType = "all"
        /\ selectedTag # All) =>
        /\ \A ref \in StoreRefs :
              InView(ref) <=> \E i \in 1..Len(Obj(ref).tags) :
                                 Obj(ref).tags[i] = selectedTag
        /\ selectedTag = TagAI =>
              \A j \in 1..Len(filteredData) :
                  /\ Obj(filteredData[j]).tags # <<TagLowerAi>>
                  /\ Obj(filteredData[j]).tags # <<TagAIEthics>>

\* T = 'AI' on the store of the entries tagged 'AI', 'ai' and 'AI Ethics':
\* the search text 'AI' would admit all three, the tag filter returns one.
C3_Witness ==
    /\ searchTerm = <<>> /\ selectedStatus = "all" /\ selectedType = "all"
    /\ selectedTag = TagAI
    /\ StoreRefs = {1, 2, 3}
    /\ \A ref \in StoreRefs : SearchAdmits(Obj(ref), TagAI)
    /\ filteredData = <<1>>

----------------------------------------------------------------------------
(* Claims about the order of the view *)

TitleOf(ref) == Obj(ref).title

DistinctTitles ==
    \A i, j \in 1..Len(allSampleData) :
        TitleOf(allSampleData[i]) = TitleOf(allSampleData[j]) => i = j

\* C4: sorted by title ascending, the titles of the view are non-decreasing
\* (the three titles of the example come out as 'Atomic Habits', 'The Lean
\* Startup', 'Why We Sleep'); when the titles of the store are pairwise
\* distinct the descending view is the reverse of the ascending one.
C4_TitleOrder ==
    sortBy = "title" =>
        /\ sortOrder = "asc" =>
              /\ \A i, j \in 1..Len(filteredData) :
                    i < j => ~StrLess(TitleOf(filteredData[j]), TitleOf(filteredData[i]))
              /\ (Len(filteredData) = 3 /\ StoreRefs = {1, 2, 3}) =>
                    [i \in 1..3 |-> TitleOf(filteredData[i])]
                        = <<AtomicHabits, TheLeanStartup, WhyWeSleep>>
        /\ (sortOrder = "desc" /\ DistinctTitles) =>
              filteredData = Reverse(FilteredData(allSampleData, engine,
                                 [CurrentParams EXCEPT !.sortOrder = "asc"]))

\* The three titles, stored in another order, sorted by title ascending.
C4_Witness ==
    /\ sortBy = "title" /\ sortOrder = "asc"
    /\ allSampleData = <<3, 1, 2>>
    /\ filteredData = <<1, 2, 3>>

PassingRefs == {ref \in StoreRefs : Matches(Obj(ref), CurrentParams)}

\* C5: sorted by dateAdded or dateRead, no entry is dropped for having no
\* date, and the entries without the date come before all the others in
\* ascending order and after all the others in descending order.
C5_MissingDatesSortFirst ==
    (sortBy = "dateAdded" \/ sortBy = "dateRead") =>
        /\ \A ref \in PassingRefs : InView(ref)
        /\ \A i, j \in 1..Len(filteredData) :
              (Obj(filteredData[i])[sortBy] = null /\ Obj(filteredData[j])[sortBy] # null)
                  => IF sortOrder = "asc" THEN i < j ELSE i > j

\* Sorted by dateRead ascending, a store that lists a read entry before an
\* entry without a dateRead: the view starts with the entry that has none.
C5_Witness ==
    /\ sortBy = "dateRead" /\ sortOrder = "asc"
    /\ Len(filteredData) = 3
    /\ Obj(allSampleData[1]).dateRead # null
    /\ Obj(allSampleData[3]).dateRead = null
    /\ Obj(filteredData[1]).dateRead = null
    /\ Obj(filteredData[3]).dateRead # null

----------------------------------------------------------------------------
(* Claims about the Entry Store *)

\* C6: no UI action and no recomputation of the view, the statistics or the
\* cumulative series changes the Entry Store: it keeps the entries and the
\* order it was loaded with.
C6_StoreIsImmutable == [][allSampleData' = allSampleData]_vars

\* On the analytics tab, with the cumulative series computed, after the view
\* was sorted into an order that is not the store's.
C6_Witness ==
    /\ activeTab = "analytics"
    /\ allSampleData = <<2, 3, 1>>
    /\ filteredData = <<1, 2, 3>>
    /\ Len(cumulativeData) = 2
    /\ cumulativeData[1].title = AtomicHabits

----------------------------------------------------------------------------
(* Claims about the aggregation functions *)

ReadRefs == {ref \in StoreRefs : Obj(ref).status = "read"}

\* the sum of the values of `field` over the entries refs that have one
RECURSIVE SumOfField(_, _)
SumOfField(refs, field) ==
    IF refs = {} THEN 0
    ELSE LET ref == CHOOSE x \in refs : TRUE
         IN  (IF Obj(ref)[field] = null THEN 0 ELSE Obj(ref)[field][1])
                 + SumOfField(refs \ {ref}, field)

\* tenths / 10 is sum / count rounded to one decimal place, halves upwards
IsRoundedMean(tenths, sum, count) ==
    /\ 2 * count * tenths <= 20 * sum + count
    /\ 20 * sum + count < 2 * count * (tenths + 1)

\* C7: with at least one read entry, averageRating is the sum of the ratings
\* of the read entries over their number, rounded to one decimal place;
\* averageImpact likewise from impact; entries that are not read contribute
\* nothing.  Ten entries, six read with ratings 4,5,4,5,5,5: readItems = 6
\* and averageRating = 4.7.
C7_AverageOverReadEntries ==
    ("getReadingStats" \in called /\ ReadRefs # {}) =>
        /\ stats.readItems = Cardinality(ReadRefs)
        /\ ~stats.averageRating.nan /\ stats.averageRating.den = 10
        /\ IsRoundedMean(stats.averageRating.num,
                         SumOfField(ReadRefs, "rating"), Cardinality(ReadRefs))
        /\ ~stats.averageImpact.nan /\ stats.averageImpact.den = 10
        /\ IsRoundedMean(stats.averageImpact.num,
                         SumOfField(ReadRefs, "impact"), Cardinality(ReadRefs))
        /\ allSampleData = ExampleStore =>
              /\ stats.totalItems = 10
              /\ stats.readItems = 6
              /\ stats.averageRating = Number(47, 10)

\* The example: ten entries, six read, 28 / 6 shown as 4.7.
C7_Witness ==
    /\ "getReadingStats" \in called
    /\ allSampleData = ExampleStore
    /\ [i \in 1..6 |-> Obj(WithStatus(allSampleData, "read")[i]).rating]
           = << <<4>>, <<5>>, <<4>>, <<5>>, <<5>>, <<5>> >>
    /\ stats.averageRating = Number(47, 10)

\* C8: with no read entry in the store the averages are a sentinel, and the
\* header's 'Avg Rating' tile, which shows stats.averageRating, never shows
\* NaN.
C8_NoNaNInHeader ==
    ReadRefs = {} => (~stats.averageRating.nan /\ ~stats.averageImpact.nan)

\* C9: on the empty store getReadingStats returns totalItems, readItems,
\* inProgress and toRead 0 together with a defined averageRating (a number,
\* not the NaN of 0 / 0).
C9_EmptyStoreStats ==
    ("getReadingStats" \in called /\ allSampleData = <<>>) =>
        /\ stats.totalItems = 0 /\ stats.readItems = 0
        /\ stats.inProgress = 0 /\ stats.toRead = 0
        /\ ~stats.averageRating.nan

\* the number of times tag occurs in the tag lists of the store
Occurrences(tag) ==
    Cardinality(UNION {{<<i, j>> : j \in {k \in 1..Len(Obj(allSampleData[i]).tags) :
                                             Obj(allSampleData[i]).tags[k] = tag}} :
                       i \in 1..Len(allSampleData)})

RECURSIVE SumOfCounts(_)
SumOfCounts(tagCount) ==
    IF tagCount = <<>> THEN 0 ELSE Head(tagCount).count + SumOfCounts(Tail(tagCount))

RECURSIVE TotalTags(_)
TotalTags(data) ==
    IF data = <<>> THEN 0 ELSE Len(Obj(Head(data)).tags) + TotalTags(Tail(data))

\* C10: getTagFrequency maps every tag to the number of its occurrences in
\* the tag lists of all entries, whatever their status, a tag repeated in
\* one entry counting each time; a label that occurs nowhere has no key; the
\* counts add up to the total length of the tag lists.  For [['A','B'],['A']]
\* the result is {A: 2, B: 1}.
C10_TagFrequency ==
    "getTagFrequency" \in called =>
        /\ \A k \in 1..Len(tagFrequency) :
              /\ tagFrequency[k].count = Occurrences(tagFrequency[k].tag)
              /\ tagFrequency[k].count > 0
        /\ \A k, l \in 1..Len(tagFrequency) :
              tagFrequency[k].tag = tagFrequency[l].tag => k = l
        /\ \A tag \in {TagA, TagB, TagAI} :
              Occurrences(tag) > 0 => \E k \in 1..Len(tagFrequency) : tagFrequency[k].tag = tag
        /\ SumOfCounts(tagFrequency) = TotalTags(allSampleData)
        /\ [i \in 1..Len(allSampleData) |-> Obj(allSampleData[i]).tags]
               = << <<TagA, TagB>>, <<TagA>> >>
              => {tagFrequency[k] : k \in 1..Len(tagFrequency)}
                     = {[tag |-> TagA, count |-> 2], [tag |-> TagB, count |-> 1]}

\* The example [['A','B'],['A']].
C10_Witness ==
    /\ "getTagFrequency" \in called
    /\ [i \in 1..Len(allSampleData) |-> Obj(allSampleData[i]).tags]
           = << <<TagA, TagB>>, <<TagA>> >>
    /\ tagFrequency = << [tag |-> TagA, count |-> 2], [tag |-> TagB, count |-> 1] >>

----------------------------------------------------------------------------
(* Claims about the header counts *)

\* the number of entries of the store with the given status
CountWithStatus(status) ==
    Cardinality({i \in 1..Len(allSampleData) : Obj(allSampleData[i]).status = status})

SchemaStatuses == {"read", "in-progress", "to-read"}

\* C11: getReadingStats returns totalItems equal to the number of entries
\* and readItems, inProgress and toRead equal to the number of entries with
\* status 'read', 'in-progress' and 'to-read'; when every status is one of
\* the three, the three counts add up to totalItems.
C11_StatsCounts ==
    "getReadingStats" \in called =>
        /\ stats.totalItems = Len(allSampleData)
        /\ stats.readItems = CountWithStatus("read")
        /\ stats.inProgress = CountWithStatus("in-progress")
        /\ stats.toRead = CountWithStatus("to-read")
        /\ (\A i \in 1..Len(allSampleData) :
                Obj(allSampleData[i]).status \in SchemaStatuses)
            => stats.readItems + stats.inProgress + stats.toRead = stats.totalItems

\* getReadingStats was applied to a store holding entries of each status
C11_Witness ==
    /\ "getReadingStats" \in called
    /\ Len(allSampleData) = 4
    /\ CountWithStatus("read") = 2
    /\ CountWithStatus("in-progress") = 1
    /\ CountWithStatus("to-read") = 1
    /\ stats.readItems = 2 /\ stats.inProgress = 1 /\ stats.toRead = 1

----------------------------------------------------------------------------
(* Claims about a malformed entry sequence *)

\* the entry sequence is absent, not an array, or empty
Malformed == dataType # "array" \/ allSampleData = <<>>

\* C12: when the entry sequence is malformed (absent, not an array, or
\* empty) no reader of it fails: the analytics panel renders its 'no data'
\* state, the view is empty, and the header statistics and the dropdown
\* derivations are evaluated without an error.
C12_MalformedDataIsTolerated ==
    Malformed =>
        /\ failed = {}
        /\ "SimpleAnalytics" \in called => analytics = "noData"
        /\ "filteredData" \in called => filteredData = <<>>

----------------------------------------------------------------------------
(* Claims about the tabs *)

\* C13: in every reachable state the active tab is one of 'timeline',
\* 'cards', 'analytics', exactly one of the three view panels is shown
\* (SimpleAnalytics being mounted exactly on the analytics tab), and the
\* filter/sort control panel is shown iff the active tab is not 'analytics'.
C13_OnePanelAndFilterVisibility ==
    /\ activeTab \in {"timeline", "cards", "analytics"}
    /\ Cardinality({value \in TabsContentValues : PanelShown(value)}) = 1
    /\ (analytics # "unmounted") <=> PanelShown("analytics")
    /\ FiltersShown <=> activeTab # "analytics"

\* the analytics tab was opened: its panel is the one shown, without filters
C13_Witness ==
    /\ activeTab = "analytics"
    /\ PanelShown("analytics") /\ ~PanelShown("timeline") /\ ~PanelShown("cards")
    /\ analytics = "charts"
    /\ ~FiltersShown

\* the entries shown are in reverse-chronological order by dateAdded
ReverseChronological ==
    \A i, j \in 1..Len(filteredData) :
        i < j => DateValue(Obj(filteredData[i]).dateAdded)
                    >= DateValue(Obj(filteredData[j]).dateAdded)

\* C14 as stated: whenever the timeline tab is active the entries it shows
\* are in reverse-chronological order by dateAdded, in every reachable state
\* of the sort-field and sort-direction controls.
C14_TimelineReverseChronological ==
    activeTab = "timeline" => ReverseChronological

\* C14 as amended: whenever the timeline tab is active and the sort controls
\* have their initial values (sort field dateAdded, direction descending),
\* the entries it shows are in reverse-chronological order by dateAdded.
C14_TimelineUnderInitialSort ==
    (activeTab = "timeline" /\ sortBy = "dateAdded" /\ sortOrder = "desc")
        => ReverseChronological

\* under the initial sort the timeline shows, latest first, a store that
\* lists the earlier entry first
C14_Witness ==
    /\ activeTab = "timeline" /\ sortBy = "dateAdded" /\ sortOrder = "desc"
    /\ allSampleData = <<1, 4>>
    /\ filteredData = <<4, 1>>

----------------------------------------------------------------------------
(* Claims about the memo and the values derived from the store *)

\* C15: in every reachable state the memoized view that is displayed equals
\* the view computed from scratch from the store and the current search
\* text, status, type and tag filters, sort field and sort direction: no
\* stale view is displayed.
C15_MemoIsNeverStale ==
    filteredData = FilteredData(allSampleData, engine, CurrentParams)

\* the direction was toggled and the tab changed: the view kept by the memo
\* across the tab change is the ascending one, not the initial one
C15_Witness ==
    /\ sortOrder = "asc"
    /\ activeTab = "cards"
    /\ allSampleData = <<4, 1>>
    /\ filteredData = <<1, 4>>
    /\ filteredData # FilteredData(allSampleData, engine, InitialParams)

\* C16: UI interactions leave the values derived from the full store as
\* they are: the header statistics, the tag frequency map, the tag and type
\* option lists and the data passed to the analytics panel are computed
\* from the full store and are the same after every step, whatever filters
\* are active.
C16_DerivedValuesIgnoreFilters ==
    [][ /\ stats' = stats
        /\ stats' = getReadingStats(allSampleData')
        /\ tagFrequency' = tagFrequency
        /\ tagFrequency' = getTagFrequency(allSampleData')
        /\ allTags' = allTags
        /\ allTypes' = allTypes
        /\ allSampleData' = allSampleData ]_vars

\* a status filter hides one of two entries while the header still counts both
C16_Witness ==
    /\ selectedStatus = "read"
    /\ Len(allSampleData) = 2
    /\ Len(filteredData) = 1
    /\ stats.totalItems = 2
    /\ stats = getReadingStats(allSampleData)
    /\ Len(tagFrequency) = 2

----------------------------------------------------------------------------
(* Claims about the identifiers *)

\* C17: every entry of the fixture has an identifier different from that of
\* every other entry, so every view (any subset of the store in any order)
\* has pairwise distinct identifiers for use as list keys.
C17_KeysAreDistinct ==
    /\ \A i, j \in 1..Len(FixtureIds) : FixtureIds[i] = FixtureIds[j] => i = j
    /\ \A i, j \in 1..Len(allSampleData) :
          Obj(allSampleData[i]).id = Obj(allSampleData[j]).id => i = j
    /\ \A i, j \in 1..Len(filteredData) :
          Obj(filteredData[i]).id = Obj(filteredData[j]).id => i = j

\* a view of two entries listed in the opposite order of the store
C17_Witness ==
    /\ Len(allSampleData) = 2
    /\ Len(filteredData) = 2
    /\ filteredData[1] = allSampleData[2]
    /\ filteredData[2] = allSampleData[1]
    /\ Obj(filteredData[1]).id # Obj(filteredData[2]).id

----------------------------------------------------------------------------
(* Claims about ties and about the rating order *)

\* the index of the entry ref in the store
StoreIndex(ref) == CHOOSE i \in 1..Len(allSampleData) : allSampleData[i] = ref

\* the two entries have equal sort keys under the current sort field
EqualKeys(refA, refB) ==
    SortValue(Obj(refA), sortBy) = SortValue(Obj(refB), sortBy)

\* C18: two entries of the view with equal sort keys (same title, same
\* rating, same date, or both dates missing) are shown in their relative
\* store order, in ascending and in descending direction.
C18_TiesKeepStoreOrder ==
    \A i, j \in 1..Len(filteredData) :
        (i < j /\ EqualKeys(filteredData[i], filteredData[j]))
            => StoreIndex(filteredData[i]) < StoreIndex(filteredData[j])

\* the rating of the i-th entry shown
RatingShown(i) == Obj(filteredData[i]).rating

\* C19: sorting by rating ascending yields non-decreasing ratings with every
\* unrated entry before every rated one; descending yields non-increasing
\* ratings with every unrated entry after every rated one; no entry is
\* dropped because its rating is missing.
C19_RatingOrder ==
    sortBy = "rating" =>
        /\ {filteredData[i] : i \in 1..Len(filteredData)} = PassingRefs
        /\ \A i, j \in 1..Len(filteredData) :
              (i < j /\ sortOrder = "asc") =>
                  /\ RatingShown(j) = null => RatingShown(i) = null
                  /\ (RatingShown(i) # null /\ RatingShown(j) # null)
                        => RatingShown(i)[1] <= RatingShown(j)[1]
        /\ \A i, j \in 1..Len(filteredData) :
              (i < j /\ sortOrder = "desc") =>
                  /\ RatingShown(i) = null => RatingShown(j) = null
                  /\ (RatingShown(i) # null /\ RatingShown(j) # null)
                        => RatingShown(i)[1] >= RatingShown(j)[1]

\* a store listing ratings 5, 4 and none is shown ascending by rating: the
\* unrated entry first, then 4, then 5
C19_Witness ==
    /\ sortBy = "rating" /\ sortOrder = "asc"
    /\ allSampleData = <<1, 2, 3>>
    /\ filteredData = <<3, 2, 1>>
    /\ RatingShown(1) = null /\ RatingShown(2) = <<4>> /\ RatingShown(3) = <<5>>

----------------------------------------------------------------------------
(* Claims about the cumulative series *)

\* the entries of the store that have a dateRead
DatedRefs == {ref \in StoreRefs : Obj(ref).dateRead # null}

\* C20: the cumulative-progress series has exactly one point per entry that
\* has a dateRead and none for the others; its points are in non-decreasing
\* dateRead order; the cumulative value of the i-th point is i, so the last
\* value is the number of entries with a dateRead.
C20_CumulativeSeries ==
    activeTab = "analytics" =>
        /\ Len(cumulativeData) = Cardinality(DatedRefs)
        /\ \A i \in 1..Len(cumulativeData) : cumulativeData[i].cumulative = i
        /\ cumulativeData # <<>> =>
              cumulativeData[Len(cumulativeData)].cumulative = Cardinality(DatedRefs)
        /\ \E order \in Arrays(DatedRefs, Cardinality(DatedRefs)) :
              /\ \A i, j \in 1..Len(order) :
                    i < j => DateValue(Obj(order[i]).dateRead)
                                <= DateValue(Obj(order[j]).dateRead)
              /\ \A i \in 1..Len(order) :
                    cumulativeData[i].title = Obj(order[i]).title

\* the series of a store that lists the later-read entry first and holds an
\* entry without a dateRead: two points, the earlier-read entry first
C20_Witness ==
    /\ activeTab = "analytics"
    /\ allSampleData = <<2, 3, 1>>
    /\ Len(cumulativeData) = 2
    /\ cumulativeData[1].title = AtomicHabits /\ cumulativeData[1].cumulative = 1
    /\ cumulativeData[2].title = TheLeanStartup /\ cumulativeData[2].cumulative = 2
    /\ cumulativeData[1].date = <<1, 24>>

----------------------------------------------------------------------------
(* C21 *)

\* the positions of the store whose entry carries the rating r
RatedAt(r) == {k \in DOMAIN allSampleData : Obj(allSampleData[k]).rating = <<r>>}

\* C21: the rating histogram has exactly five buckets, labelled for the
\* ratings 1 to 5 in that order; the count of bucket r is the number of
\* entries of any status rated r, empty buckets being kept with count 0, and
\* the five counts add up to the number of entries that carry a rating.
C21_RatingHistogram ==
    analytics = "charts" =>
        /\ Len(charts.ratingData) = 5
        /\ \A r \in 1..5 :
            /\ Head(charts.ratingData[r].rating) = 48 + r
            /\ charts.ratingData[r].count = Cardinality(RatedAt(r))
        /\ charts.ratingData[1].count + charts.ratingData[2].count
             + charts.ratingData[3].count + charts.ratingData[4].count
             + charts.ratingData[5].count
           = Cardinality({k \in DOMAIN allSampleData :
                             Obj(allSampleData[k]).rating # null})

\* the histogram of a store with an unrated entry and an entry rated 1 that
\* is not read: bucket 1 counts it, bucket 4 is empty
C21_Witness ==
    /\ analytics = "charts"
    /\ charts.ratingData[1].count = 1
    /\ charts.ratingData[4].count = 0
    /\ \E k \in DOMAIN allSampleData : Obj(allSampleData[k]).rating = null
    /\ \E k \in RatedAt(1) : Obj(allSampleData[k]).status # "read"

----------------------------------------------------------------------------
(* C22 *)

\* word is tag without the white space around it
IsTrimOf(tag, word) ==
    \E i \in 0..Len(tag) : \E j \in i..Len(tag) :
        /\ SubSeq(tag, i + 1, j) = word
        /\ \A k \in (1..i) \cup ((j + 1)..Len(tag)) : IsWhiteSpace(tag[k])
        /\ word # <<>> => ~IsWhiteSpace(word[1]) /\ ~IsWhiteSpace(word[Len(word)])

\* the places <<entry, position>> of the store where a tag stands
TagPlaces ==
    UNION {{<<k, t>> : t \in DOMAIN Obj(allSampleData[k]).tags} :
           k \in DOMAIN allSampleData}

TagAt(place) == Obj(allSampleData[place[1]]).tags[place[2]]

\* how often the store lists a tag that trims to word
TrimmedOccurrences(word) ==
    Cardinality({place \in TagPlaces : IsTrimOf(TagAt(place), word)})

\* the tags of the store as they read without the white space around them,
\* the empty ones left out
CleanTagsOfStore ==
    {word \in UNION {{SubSeq(TagAt(place), i, j) :
                        i \in 1..Len(TagAt(place)), j \in 1..Len(TagAt(place))} :
                     place \in TagPlaces} :
        word # <<>> /\ TrimmedOccurrences(word) > 0}

WordsShown == {charts.wordCloudData[i].word : i \in DOMAIN charts.wordCloudData}

----------------------------------------------------------------------------
(* C24 *)

\* the header's average rating written to one decimal place
HeaderAverageText ==
    IF stats.averageRating.nan THEN <<78, 97, 78>>       \* 'NaN'
    ELSE TenthsText(stats.averageRating.num)

\* the analytics panel's average rating written to one decimal place
AnalyticsAverageText ==
    IF charts.stats.avgRating.typeof = "string" THEN charts.stats.avgRating.text
    ELSE <<48, 46, 48>>                                  \* 0 is '0.0'

\* C24: for a non-empty store the header's statistics and the analytics
\* panel's agree: the same total, read, in-progress and to-read counts and
\* the same average rating to one decimal place, also when no entry is read.
C24_HeaderAgreesWithAnalytics ==
    analytics = "charts" =>
        /\ stats.totalItems = charts.stats.total
        /\ stats.readItems = charts.stats.read
        /\ stats.inProgress = charts.stats.inProgress
        /\ stats.toRead = charts.stats.toRead
        /\ HeaderAverageText = AnalyticsAverageText

----------------------------------------------------------------------------
(* C25 *)

\* a tag is selected, the search box is empty and the other two filters
\* are at 'all'
TagSelectedAlone ==
    /\ selectedTag # All
    /\ searchTerm = <<>>
    /\ selectedStatus = "all"
    /\ selectedType = "all"

\* the number the dropdown shows beside a tag it offers: tagFrequency[tag]
DisplayedCount(tag) ==
    tagFrequency[CHOOSE k \in DOMAIN tagFrequency : tagFrequency[k].tag = tag].count

\* the positions of the store whose entry lists the tag
ListedAt(tag) ==
    {i \in DOMAIN allSampleData :
        \E k \in DOMAIN Obj(allSampleData[i]).tags : Obj(allSampleData[i]).tags[k] = tag}

\* C25 as stated: the count shown beside an offered tag is the number of
\* entries of the view that selecting the tag alone gives, and that view is
\* never empty.
C25_CountIsViewSize ==
    TagSelectedAlone =>
        /\ DisplayedCount(selectedTag) = Len(filteredData)
        /\ Len(filteredData) > 0

\* C25, amended: the count shown beside an offered tag is the number of
\* occurrences of the tag in the tag lists of all entries; the view that
\* selecting the tag alone gives holds the entries that list it, at least
\* one, so the count equals the size of the view when no entry lists the tag
\* twice and exceeds it otherwise.
C25_CountIsOccurrences ==
    TagSelectedAlone =>
        /\ DisplayedCount(selectedTag) = Occurrences(selectedTag)
        /\ Len(filteredData) = Cardinality(ListedAt(selectedTag))
        /\ Len(filteredData) > 0
        /\ IF Occurrences(selectedTag) = Cardinality(ListedAt(selectedTag))
           THEN DisplayedCount(selectedTag) = Len(filteredData)
           ELSE DisplayedCount(selectedTag) > Len(filteredData)

\* the tag 'u' selected in a store where one entry lists it once and
\* another twice: the dropdown shows 3 and the view has 2 entries
C25_Witness ==
    /\ TagSelectedAlone
    /\ selectedTag = TagU
    /\ DisplayedCount(selectedTag) = 3
    /\ Len(filteredData) = 2

----------------------------------------------------------------------------
(* C26 *)

\* the month <<year, month>> a date 'YYYY-MM-DD' names
MonthOf(date) == <<date[1], date[2]>>

MonthBefore(a, b) == a[1] < b[1] \/ (a[1] = b[1] /\ a[2] < b[2])

\* the positions of the store whose entry was read in the month
ReadInMonth(month) ==
    {k \in DOMAIN allSampleData :
        /\ Obj(allSampleData[k]).dateRead # null
        /\ MonthOf(Obj(allSampleData[k]).dateRead) = month}

MonthsShown == {charts.monthlyData[i].month : i \in DOMAIN charts.monthlyData}

\* C26: the monthly series lists its months in chronological order; the
\* count of a month is the number of entries whose dateRead falls in it,
\* entries without a dateRead being counted nowhere; a month with a read is
\* left out only when 12 later months are listed.  This holds for every
\* order of the entries in the store.
C26_MonthlySeries ==
    analytics = "charts" =>
        /\ \A i, j \in DOMAIN charts.monthlyData :
              i < j => MonthBefore(charts.monthlyData[i].month,
                                   charts.monthlyData[j].month)
        /\ \A i \in DOMAIN charts.monthlyData :
              /\ charts.monthlyData[i].count > 0
              /\ charts.monthlyData[i].count
                   = Cardinality(ReadInMonth(charts.monthlyData[i].month))
        /\ \A k \in DOMAIN allSampleData :
              Obj(allSampleData[k]).dateRead # null
                  /\ MonthOf(Obj(allSampleData[k]).dateRead) \notin MonthsShown
              => /\ Len(charts.monthlyData) = 12
                 /\ \A month \in MonthsShown :
                       MonthBefore(MonthOf(Obj(allSampleData[k]).dateRead), month)

----------------------------------------------------------------------------
(* C27 *)

\* the values of `field` of the read entries, in store order
ReadValues(field) ==
    LET read == SelectSeq(allSampleData, LAMBDA ref : Obj(ref).status = "read")
    IN  [i \in DOMAIN read |-> Obj(read[i])[field]]

\* the read entries that have a value of `field`
ReadRefsWith(field) == {ref \in ReadRefs : Obj(ref)[field] # null}

----------------------------------------------------------------------------
(* C28 *)

\* C28: a step that changes the active tab changes none of the search text,
\* the status, type and tag filters, the sort field and the sort direction,
\* whether the controls are shown or hidden, and leaves the view as it was.
C28_TabSwitchKeepsControls ==
    [][activeTab' # activeTab =>
          /\ searchTerm' = searchTerm
          /\ selectedStatus' = selectedStatus
          /\ selectedType' = selectedType
          /\ selectedTag' = selectedTag
          /\ sortBy' = sortBy
          /\ sortOrder' = sortOrder
          /\ filteredData' = filteredData]_vars

\* the analytics tab, where the controls are hidden, entered with a search
\* text, a status filter and the ascending direction set
C28_Witness ==
    /\ activeTab = "analytics"
    /\ ~FiltersShown
    /\ searchTerm # <<>>
    /\ selectedStatus # "all"
    /\ sortOrder = "asc"
    /\ Len(filteredData) > 0

----------------------------------------------------------------------------
(* C29 *)

\* the controls as the page shows them before any interaction
ControlsUntouched ==
    /\ activeTab = "timeline"
    /\ searchTerm = <<>>
    /\ selectedStatus = "all"
    /\ selectedType = "all"
    /\ selectedTag = All

\* the view holds every entry of the store exactly once, newest dateAdded
\* first
WholeStoreNewestFirst ==
    /\ Len(filteredData) = Len(allSampleData)
    /\ \A ref \in StoreRefs : InView(ref)
    /\ \A i, j \in 1..Len(filteredData) :
          i < j => DateValue(Obj(filteredData[i]).dateAdded)
                       >= DateValue(Obj(filteredData[j]).dateAdded)

\* C29: in the initial state the active tab is 'timeline', the search text
\* is empty, the three filters are 'all' and the view holds every entry of
\* the store exactly once, ordered by dateAdded from newest to oldest; the
\* same view is shown whenever the controls stand as they do initially.
C29_InitialState ==
    /\ ControlsUntouched /\ sortBy = "dateAdded" /\ sortOrder = "desc"
    /\ WholeStoreNewestFirst
    /\ []((ControlsUntouched /\ sortBy = "dateAdded" /\ sortOrder = "desc")
             => WholeStoreNewestFirst)

\* the first render of a store whose entries are not in the order of the
\* view: the sort moved them
C29_Witness ==
    /\ ControlsUntouched /\ sortBy = "dateAdded" /\ sortOrder = "desc"
    /\ Len(allSampleData) = 3
    /\ filteredData # allSampleData
    /\ DateValue(Obj(filteredData[1]).dateAdded) > DateValue(Obj(filteredData[3]).dateAdded)

----------------------------------------------------------------------------
(* C30 *)

\* C30: the document never holds more than one script element with src
\* '/wordcloud2.js', whatever the effect runs, re-renders and remounts, and
\* a script element is appended only by an effect whose word list is given
\* and not empty.
C30_AtMostOneScript ==
    /\ Len(scripts) <= 1
    /\ \A i \in DOMAIN scripts :
          scripts[i].words.defined /\ Len(scripts[i].words.list) > 0
    /\ Len(scripts) = 0 =>
          \A canvas \in DOMAIN drawn : drawn[canvas] = null

\* the third mount of the component, with words other than those of the
\* effect that appended the script: still one script
C30_Witness ==
    /\ Len(scripts) = 1
    /\ Len(drawn) = 3
    /\ canvasRef = 3
    /\ Len(words.list) > 0
    /\ words # scripts[1].words

----------------------------------------------------------------------------
(* C23 *)

\* the script has finished loading while a WordCloud with words is mounted
LoadedWhileMounted ==
    windowWordCloud /\ canvasRef # 0 /\ Len(words.list) > 0

\* the mounted canvas shows the cloud of the current words
CloudOfCurrentWords ==
    canvasRef # 0 /\ drawn[canvasRef] = wordList(words.list)

\* C23: whenever a WordCloud is mounted with a non-empty word list and the
\* script has finished loading, the cloud of the current words is eventually
\* drawn on the mounted canvas (unless the component is unmounted or given
\* no words first), in every interleaving of effect runs, re-renders,
\* remounts and the script's load event.
C23_CloudEventuallyDrawn ==
    LoadedWhileMounted ~>
        (CloudOfCurrentWords \/ canvasRef = 0 \/ Len(words.list) = 0)

====
